---- MODULE Spec2Model ----
(***************************************************************************)
(* Balance computation of the expense sharing application                  *)
(* (src/expense1.py, DatabaseManager).                                     *)
(*                                                                         *)
(* The ledger is the pair of tables read by calculate_balances: the join   *)
(* of expenses and expense_splits (one row per split, in rowid order) and  *)
(* the settlements table.  Amounts are counted in units of half a cent     *)
(* (0.005), so that shares below the one-cent tolerance exist, as they do  *)
(* for the REAL columns of the database: the tolerance 0.01 is 2 units.    *)
(* Python dicts keep insertion order and sorted() is stable, so the        *)
(* defaultdict `net` is modelled as a sequence of (key, value) entries.    *)
(* `reading` is the position of a calculate_balances call between its two  *)
(* SELECT statements, while another connection commits to the same file.   *)
(* `dashboard` is what the Settle buttons of ExpenseApp.render_balances    *)
(* captured when the dashboard was drawn; `orphaned` are the positions, in *)
(* `splits`, of the rows left by add_expense calls that returned None.     *)
(***************************************************************************)
EXTENDS Integers, Sequences, FiniteSets, TLC

VARIABLES splits, settlements, ret, reading, dashboard, orphaned

vars == <<splits, settlements, ret, reading, dashboard, orphaned>>

\* 0.01 in units of 0.005
Eps == 2

\* ---------------------------------------------------------------- bounds
MaxAmt == 3
MaxRows == 2

\* the user_id values of three registered users
Users == {1, 2, 3}
Shares == 1..MaxAmt
Payments == 1..MaxAmt

\* ------------------------------------------------------- small utilities
Abs(x) == IF x < 0 THEN -x ELSE x

\* slip: max written for min
Min_max(a, b) == IF a < b THEN b ELSE a

Min(a, b) == IF a < b THEN a ELSE b

RECURSIVE SumSeq(_)
SumSeq(s) == IF s = <<>> THEN 0 ELSE Head(s) + SumSeq(Tail(s))

Values(d) == [n \in 1..Len(d) |-> d[n].v]

\* ------------------------------------------------ defaultdict(float) net
\* net[k]: an absent key reads as 0.0
DictGet(d, k) ==
    IF \E n \in 1..Len(d) : d[n].k = k
    THEN (CHOOSE e \in {d[n] : n \in 1..Len(d)} : e.k = k).v
    ELSE 0

\* net[k] += delta: an absent key is inserted at the end with 0.0 + delta
DictAdd(d, k, delta) ==
    IF \E n \in 1..Len(d) : d[n].k = k
    THEN [n \in 1..Len(d) |-> IF d[n].k = k
                              THEN [k |-> k, v |-> d[n].v + delta]
                              ELSE d[n]]
    ELSE Append(d, [k |-> k, v |-> delta])

\* ------------------------------------------ 1. raw net balances (l.307-311)
\* slip: the payer is credited before the self-split test
split_row_late_skip(net, row) ==
    IF row.payer = row.user
    THEN DictAdd(net, row.payer, row.amount)
    ELSE DictAdd(DictAdd(net, row.payer, row.amount), row.user, 0 - row.amount)

\* slip: the participant is credited as well
split_row_credit_both(net, row) ==
    IF row.payer = row.user
    THEN net
    ELSE DictAdd(DictAdd(net, row.payer, row.amount), row.user, row.amount)

split_row(net, row) ==
    IF row.payer = row.user
    THEN net
    ELSE DictAdd(DictAdd(net, row.payer, row.amount), row.user, 0 - row.amount)

RECURSIVE fold_splits(_, _)
fold_splits(net, rows) ==
    IF rows = <<>> THEN net
    ELSE fold_splits(split_row(net, Head(rows)), Tail(rows))

\* ------------------------------------- 2. adjust for settlements (l.314-317)
\* slip: the receiver is credited as well
settlement_row_credit_both(net, row) ==
    DictAdd(DictAdd(net, row.from, row.amount), row.to, row.amount)

\* slip: the payment is booked the wrong way round
settlement_row_swapped(net, row) ==
    DictAdd(DictAdd(net, row.from, 0 - row.amount), row.to, row.amount)

settlement_row(net, row) ==
    DictAdd(DictAdd(net, row.from, row.amount), row.to, 0 - row.amount)

RECURSIVE fold_settlements(_, _)
fold_settlements(net, rows) ==
    IF rows = <<>> THEN net
    ELSE fold_settlements(settlement_row(net, Head(rows)), Tail(rows))

net_balances(sp, st) == fold_settlements(fold_splits(<<>>, sp), st)

\* ------------------------------------------------- 3. simplify (l.320-337)
\* sorted(..., key=lambda x: x[1]) is stable: an entry goes after every
\* entry whose key is not greater
RECURSIVE insert_asc(_, _)
insert_asc(s, e) ==
    IF s = <<>> THEN <<e>>
    ELSE IF Head(s).v <= e.v THEN <<Head(s)>> \o insert_asc(Tail(s), e)
         ELSE <<e>> \o s

RECURSIVE sorted_asc(_)
sorted_asc(s) ==
    IF s = <<>> THEN <<>>
    ELSE insert_asc(sorted_asc(SubSeq(s, 1, Len(s) - 1)), s[Len(s)])

\* sorted(..., reverse=True) keeps the original order of equal keys
RECURSIVE insert_desc(_, _)
insert_desc(s, e) ==
    IF s = <<>> THEN <<e>>
    ELSE IF Head(s).v >= e.v THEN <<Head(s)>> \o insert_desc(Tail(s), e)
         ELSE <<e>> \o s

RECURSIVE sorted_desc(_)
sorted_desc(s) ==
    IF s = <<>> THEN <<>>
    ELSE insert_desc(sorted_desc(SubSeq(s, 1, Len(s) - 1)), s[Len(s)])

\* slip: the tolerance is left out
is_debtor_any(e) == e.v < 0

\* slip: 0.1 written for 0.01
is_debtor_dime(e) == e.v < 0 - 10 * Eps

is_debtor(e) == e.v < 0 - Eps

\* slip: 0.1 written for 0.01
is_creditor_dime(e) == e.v > 10 * Eps

is_creditor(e) == e.v > Eps

debtors_of(net) == sorted_asc(SelectSeq(net, is_debtor))

\* slip: reverse=True left out
creditors_of_asc(net) == sorted_asc(SelectSeq(net, is_creditor))

creditors_of(net) == sorted_desc(SelectSeq(net, is_creditor))

\* abs(damt) < 0.01 / abs(camt) < 0.01: the cursor moves on
settled(x) == Abs(x) < Eps

\* slip: half of the amount is transferred at a time
walk_step_half(w) ==
    LET did  == w.debtors[w.i].k
        damt == w.debtors[w.i].v
        cid  == w.creditors[w.j].k
        camt == w.creditors[w.j].v
        amt  == (Min(Abs(damt), camt) + 1) \div 2
        d2   == damt + amt
        c2   == camt - amt
    IN  [simplified |-> Append(w.simplified, [from |-> did, to |-> cid, amount |-> amt]),
         debtors    |-> IF settled(d2) THEN w.debtors
                        ELSE [w.debtors EXCEPT ![w.i] = [k |-> did, v |-> d2]],
         creditors  |-> IF settled(c2) THEN w.creditors
                        ELSE [w.creditors EXCEPT ![w.j] = [k |-> cid, v |-> c2]],
         i          |-> IF settled(d2) THEN w.i + 1 ELSE w.i,
         j          |-> IF settled(c2) THEN w.j + 1 ELSE w.j]

\* slip: the debtor hands over all that is left, whatever the creditor is due
walk_step_over(w) ==
    LET did  == w.debtors[w.i].k
        damt == w.debtors[w.i].v
        cid  == w.creditors[w.j].k
        camt == w.creditors[w.j].v
        amt  == Abs(damt)
        d2   == damt + amt
        c2   == camt - amt
    IN  [simplified |-> Append(w.simplified, [from |-> did, to |-> cid, amount |-> amt]),
         debtors    |-> IF settled(d2) THEN w.debtors
                        ELSE [w.debtors EXCEPT ![w.i] = [k |-> did, v |-> d2]],
         creditors  |-> IF settled(c2) THEN w.creditors
                        ELSE [w.creditors EXCEPT ![w.j] = [k |-> cid, v |-> c2]],
         i          |-> IF settled(d2) THEN w.i + 1 ELSE w.i,
         j          |-> IF settled(c2) THEN w.j + 1 ELSE w.j]

\* one iteration of the while loop, on the loop state w
walk_step(w) ==
    LET did  == w.debtors[w.i].k
        damt == w.debtors[w.i].v
        cid  == w.creditors[w.j].k
        camt == w.creditors[w.j].v
        amt  == Min(Abs(damt), camt)
        d2   == damt + amt
        c2   == camt - amt
    IN  [simplified |-> Append(w.simplified, [from |-> did, to |-> cid, amount |-> amt]),
         debtors    |-> IF settled(d2) THEN w.debtors
                        ELSE [w.debtors EXCEPT ![w.i] = [k |-> did, v |-> d2]],
         creditors  |-> IF settled(c2) THEN w.creditors
                        ELSE [w.creditors EXCEPT ![w.j] = [k |-> cid, v |-> c2]],
         i          |-> IF settled(d2) THEN w.i + 1 ELSE w.i,
         j          |-> IF settled(c2) THEN w.j + 1 ELSE w.j]

\* slip: the loop stops one debtor early
RECURSIVE walk_short(_)
walk_short(w) ==
    IF w.i < Len(w.debtors) /\ w.j <= Len(w.creditors)
    THEN walk_short(walk_step(w))
    ELSE w

RECURSIVE walk(_)
walk(w) ==
    IF w.i <= Len(w.debtors) /\ w.j <= Len(w.creditors)
    THEN walk(walk_step(w))
    ELSE w

simplify(net, carried) ==
    walk([simplified |-> carried,
          debtors    |-> debtors_of(net),
          creditors  |-> creditors_of(net),
          i |-> 1, j |-> 1])

\* ------------------------------------ filter for current user (l.340-344)
ResAdd(res, k, delta) ==
    IF k \in DOMAIN res THEN [res EXCEPT ![k] = @ + delta]
    ELSE res @@ (k :> delta)

\* slip: a debt of the user is recorded with the sign of a credit
project_row_unsigned(res, t, user_id) ==
    IF t.from = user_id THEN ResAdd(res, t.to, t.amount)
    ELSE IF t.to = user_id THEN ResAdd(res, t.from, t.amount)
    ELSE res

\* slip: a credit of the user is filed under the user's own id
project_row_own_key(res, t, user_id) ==
    IF t.from = user_id THEN ResAdd(res, t.to, 0 - t.amount)
    ELSE IF t.to = user_id THEN ResAdd(res, t.to, t.amount)
    ELSE res

project_row(res, t, user_id) ==
    IF t.from = user_id THEN ResAdd(res, t.to, 0 - t.amount)
    ELSE IF t.to = user_id THEN ResAdd(res, t.from, t.amount)
    ELSE res

RECURSIVE project(_, _, _)
project(res, simplified, user_id) ==
    IF simplified = <<>> THEN res
    ELSE project(project_row(res, Head(simplified), user_id), Tail(simplified), user_id)

\* the empty defaultdict
EmptyRes == [x \in {} |-> 0]

\* ------------------------------------------------------------ operations
NoCall == [op |-> "none"]

\* no calculate_balances call is between its two SELECT statements
Idle == [at |-> "idle"]

\* no dashboard has been drawn: nobody is logged in
NoView == [uid |-> 0, bal |-> EmptyRes]

Init ==
    /\ splits = <<>>
    /\ settlements = <<>>
    /\ ret = NoCall
    /\ reading = Idle
    /\ dashboard = NoView
    /\ orphaned = {}

\* the rows add_expense inserts: one per item of the splits dict
expense_rows(payer_id, items) ==
    [n \in 1..Len(items) |-> [payer |-> payer_id, user |-> items[n].user, amount |-> items[n].amount]]

add_expense(payer_id, items) ==
    /\ splits' = splits \o expense_rows(payer_id, items)
    /\ ret' = [op |-> "add_expense"]
    /\ UNCHANGED settlements

\* slip: INSERT OR REPLACE keeps a single settlement row
settle_balance_replace(from_id, to_id, amount) ==
    /\ settlements' = <<[from |-> from_id, to |-> to_id, amount |-> amount]>>
    /\ ret' = [op |-> "settle_balance"]
    /\ UNCHANGED splits

settle_balance(from_id, to_id, amount) ==
    /\ settlements' = Append(settlements, [from |-> from_id, to |-> to_id, amount |-> amount])
    /\ ret' = [op |-> "settle_balance"]
    /\ UNCHANGED splits

\* slip: the user's own entry of the defaultdict is read, which inserts it
balances_own_key(sp, st, user_id, carried) ==
    LET net == net_balances(sp, st)
        w   == simplify(net, carried)
    IN  [op |-> "calculate_balances", user |-> user_id, net |-> net,
         debtors |-> w.debtors, creditors |-> w.creditors, i |-> w.i, j |-> w.j,
         simplified |-> w.simplified,
         res |-> ResAdd(project(EmptyRes, w.simplified, user_id), user_id, 0),
         warned |-> FALSE]

\* locals of calculate_balances at its return, and the mapping it returns;
\* warned: l.301-344 hold no print, messagebox or raise, and the return value
\* is the mapping alone, so nothing else is ever reported to the caller
balances(sp, st, user_id, carried) ==
    LET net == net_balances(sp, st)
        w   == simplify(net, carried)
    IN  [op |-> "calculate_balances", user |-> user_id, net |-> net,
         debtors |-> w.debtors, creditors |-> w.creditors, i |-> w.i, j |-> w.j,
         simplified |-> w.simplified,
         res |-> project(EmptyRes, w.simplified, user_id),
         warned |-> FALSE]

\* slip: the transfer list outlives the call and is appended to again
calculate_balances_carry(user_id) ==
    /\ ret' = balances(splits, settlements, user_id,
                       IF ret.op = "calculate_balances" THEN ret.simplified ELSE <<>>)
                 @@ [again |-> ret.op = "calculate_balances"]
    /\ UNCHANGED <<splits, settlements>>

\* again: the call follows another call, the ledger being the same
calculate_balances(user_id) ==
    /\ ret' = balances(splits, settlements, user_id, <<>>)
                 @@ [again |-> ret.op = "calculate_balances"]
    /\ UNCHANGED <<splits, settlements>>

\* the splits dicts of the model: one or two participants, in any order
Items ==
    {<<[user |-> u, amount |-> a]>> : u \in Users, a \in Shares}
    \cup {<<[user |-> p[1], amount |-> q[1]], [user |-> p[2], amount |-> q[2]]>> :
            p \in {x \in Users \X Users : x[1] # x[2]}, q \in Shares \X Shares}

Rows == Len(splits) + Len(settlements)

\* one connection: every call runs from its first line to its return
Next ==
    \/ /\ Rows < MaxRows
       /\ \E p \in Users, items \in Items :
            Rows + Len(items) <= MaxRows /\ add_expense(p, items)
       /\ UNCHANGED <<reading, dashboard, orphaned>>
    \/ /\ Rows < MaxRows
       /\ \E f \in Users : \E t \in Users \ {f}, a \in Payments : settle_balance(f, t, a)
       /\ UNCHANGED <<reading, dashboard, orphaned>>
    \/ /\ \E u \in Users : calculate_balances(u)
       /\ UNCHANGED <<reading, dashboard, orphaned>>

Spec == Init /\ [][Next]_vars

\* ------------------------------------------------- five users, two payers
\* Users 4 and 5 pay, users 1..3 each owe one share of one expense.
WideAmt == 5

WidePayers == {4, 5}

WideDebtors == {1, 2, 3}

Owes(d) == \E n \in 1..Len(splits) : splits[n].user = d

NextWide ==
    \/ /\ \E p \in WidePayers, d \in WideDebtors, a \in 1..WideAmt :
            ~Owes(d) /\ add_expense(p, <<[user |-> d, amount |-> a]>>)
       /\ UNCHANGED <<reading, dashboard, orphaned>>
    \/ /\ \E u \in WidePayers \cup WideDebtors : calculate_balances(u)
       /\ UNCHANGED <<reading, dashboard, orphaned>>

SpecWide == Init /\ [][NextWide]_vars

\* ------------------------------------------------- a ring of three users
\* Each user takes part in expenses paid by the next user of the ring only.
RingRows == 3

next_user(u) == (u % 3) + 1

NextRing ==
    \/ /\ Len(splits) < RingRows
       /\ \E u \in Users, a \in Shares :
            add_expense(next_user(u), <<[user |-> u, amount |-> a]>>)
       /\ UNCHANGED <<reading, dashboard, orphaned>>
    \/ /\ \E u \in Users : calculate_balances(u)
       /\ UNCHANGED <<reading, dashboard, orphaned>>

SpecRing == Init /\ [][NextRing]_vars

\* ------------------------------ two connections to the same database file
\* One application instance runs calculate_balances, statement by statement;
\* a second instance commits expenses and settlements.  A SELECT reads the
\* rows committed so far: the sqlite3 module opens no transaction for it.
ConcRows == 2

ConcUsers == {1, 2}

\* history: the ledger states (number of split rows, number of settlement
\* rows) committed since the call in progress began
observe(ns, nt) ==
    IF reading.at = "idle" THEN reading
    ELSE [reading EXCEPT !.seen = @ \cup {<<ns, nt>>}]

\* l.301-311: the first SELECT and its fetchall()
read_splits(user_id) ==
    /\ reading.at = "idle"
    /\ reading' = [at |-> "l314", user |-> user_id, rows |-> splits,
                   seen |-> {<<Len(splits), Len(settlements)>>}]
    /\ UNCHANGED <<splits, settlements, ret, dashboard, orphaned>>

\* l.314-344: the second SELECT, the simplifier and the projector
read_settlements ==
    /\ reading.at = "l314"
    /\ ret' = balances(reading.rows, settlements, reading.user, <<>>)
                 @@ [seen |-> reading.seen]
    /\ reading' = Idle
    /\ UNCHANGED <<splits, settlements, dashboard, orphaned>>

other_add_expense(payer_id, items) ==
    /\ add_expense(payer_id, items)
    /\ reading' = observe(Len(splits) + Len(items), Len(settlements))
    /\ UNCHANGED <<dashboard, orphaned>>

other_settle_balance(from_id, to_id, amount) ==
    /\ settle_balance(from_id, to_id, amount)
    /\ reading' = observe(Len(splits), Len(settlements) + 1)
    /\ UNCHANGED <<dashboard, orphaned>>

NextConc ==
    \/ /\ Rows < ConcRows
       /\ \E p \in ConcUsers : \E u \in ConcUsers \ {p}, a \in Shares :
            other_add_expense(p, <<[user |-> u, amount |-> a]>>)
    \/ /\ Rows < ConcRows
       /\ \E f \in ConcUsers : \E t \in ConcUsers \ {f}, a \in Payments :
            other_settle_balance(f, t, a)
    \/ \E u \in ConcUsers : read_splits(u)
    \/ read_settlements

SpecConc == Init /\ [][NextConc]_vars

\* ------------------------------------------- AddExpenseDialog (l.978-1009)
\* The dialog of the logged-in user uid: the amount field, the split type,
\* the ticked participants in the order of self.inputs, and their entries.
DialogRows == 2

MaxTotal == 4

DialogUsers == {1, 2}

\* the amount field: whole cents, negative ones included
Totals == {t \in (0 - MaxTotal)..MaxTotal : t % 2 = 0}

\* the entries of an exact split (amounts) and of a percent split (percents)
ExactEntries == {0 - 2, 0, 2, 4, 16}

PercentEntries == {0 - 50, 50, 100, 150}

Selections ==
    {<<>>} \cup {<<u>> : u \in DialogUsers}
    \cup {<<p[1], p[2]>> : p \in {x \in DialogUsers \X DialogUsers : x[1] # x[2]}}

\* messagebox.showerror(...) and return: nothing is recorded
showerror(msg) ==
    /\ ret' = [op |-> "save", error |-> msg]
    /\ UNCHANGED <<splits, settlements>>

\* total / len(selected_uids); the totals of the model are multiples of the
\* number of participants, so that the quotient is exact
equal_share(total, n) == total \div n

\* (p / 100.0) * total; exact for the percents and totals of the model
percent_share(p, total) == (p * total) \div 100

\* the splits dict built for the split type, in the order of selected_uids
save_splits(stype, total, selected_uids, entries) ==
    [n \in 1..Len(selected_uids) |->
        [user   |-> selected_uids[n],
         amount |-> IF stype = "equal" THEN equal_share(total, Len(selected_uids))
                    ELSE IF stype = "exact" THEN entries[n]
                    ELSE percent_share(entries[n], total)]]

\* 0.05 in units of 0.005
SumTol == 10

\* 0.5 percent, in halves of a percent
PctTol == 1

\* abs(csum - total) > 0.05 and abs(cpct - 100) > 0.5 reject the expense
save(uid, stype, total, selected_uids, entries) ==
    IF selected_uids = <<>>
    THEN showerror("Select 1+ person")
    ELSE IF stype = "exact" /\ Abs(SumSeq(entries) - total) > SumTol
    THEN showerror("Totals don't match")
    ELSE IF stype = "percent" /\ 2 * Abs(SumSeq(entries) - 100) > PctTol
    THEN showerror("Percents must match 100%")
    ELSE add_expense(uid, save_splits(stype, total, selected_uids, entries))

NextDialog ==
    \/ /\ Rows < DialogRows
       /\ \E uid \in DialogUsers, total \in Totals, sel \in Selections :
            /\ Rows + Len(sel) <= DialogRows
            /\ save(uid, "equal", total, sel, <<>>)
       /\ UNCHANGED <<reading, dashboard, orphaned>>
    \/ /\ Rows < DialogRows
       /\ \E uid \in DialogUsers, total \in Totals, sel \in Selections :
            /\ Rows + Len(sel) <= DialogRows
            /\ \E entries \in [1..Len(sel) -> ExactEntries] :
                 save(uid, "exact", total, sel, entries)
       /\ UNCHANGED <<reading, dashboard, orphaned>>
    \/ /\ Rows < DialogRows
       /\ \E uid \in DialogUsers, total \in Totals, sel \in Selections :
            /\ Rows + Len(sel) <= DialogRows
            /\ \E entries \in [1..Len(sel) -> PercentEntries] :
                 save(uid, "percent", total, sel, entries)
       /\ UNCHANGED <<reading, dashboard, orphaned>>

SpecDialog == Init /\ [][NextDialog]_vars

\* ----------------------------------- ExpenseApp (l.497-555, l.738-788)
\* One window: the user logged in is dashboard.uid.  The dashboard is drawn
\* by view_dashboard; the Add Expense dialog is a separate Toplevel whose
\* save does not redraw it.
AppRows == 2
\* the shares typed into the dialog, in units: 0.005 and 0.015
AppAmounts == {1, 3}
AppUsers == {1, 2, 3}

\* l.531 and l.555: the balances are computed and render_balances binds a
\* Settle button to every entry, with the amount it shows
view_dashboard(uid) ==
    /\ calculate_balances(uid)
    /\ dashboard' = [uid |-> uid, bal |-> ret'.res]

\* l.746-747: the entries that get a row and a Settle button
Buttons == {u \in DOMAIN dashboard.bal : ~settled(dashboard.bal[u])}

\* slip: the displayed amount is recorded with its sign
settle_up_signed(friend_id) ==
    LET amount == dashboard.bal[friend_id]
        fid    == IF amount > 0 THEN friend_id ELSE dashboard.uid
        tid    == IF amount > 0 THEN dashboard.uid ELSE friend_id
        paid   == Append(settlements, [from |-> fid, to |-> tid, amount |-> amount])
        bal    == balances(splits, paid, dashboard.uid, <<>>) @@ [again |-> FALSE]
    IN  /\ settlements' = paid
        /\ ret' = bal
        /\ dashboard' = [uid |-> dashboard.uid, bal |-> bal.res]
        /\ UNCHANGED splits

\* slip: the creditor is recorded as the one who paid
settle_up_payee_pays(friend_id) ==
    LET amount == dashboard.bal[friend_id]
        fid    == IF amount > 0 THEN dashboard.uid ELSE friend_id
        tid    == IF amount > 0 THEN friend_id ELSE dashboard.uid
        paid   == Append(settlements, [from |-> fid, to |-> tid, amount |-> Abs(amount)])
        bal    == balances(splits, paid, dashboard.uid, <<>>) @@ [again |-> FALSE]
    IN  /\ settlements' = paid
        /\ ret' = bal
        /\ dashboard' = [uid |-> dashboard.uid, bal |-> bal.res]
        /\ UNCHANGED splits

\* l.778-788, the user answering yes: settle_balance, then view_dashboard
settle_up(friend_id) ==
    LET amount == dashboard.bal[friend_id]
        fid    == IF amount > 0 THEN friend_id ELSE dashboard.uid
        tid    == IF amount > 0 THEN dashboard.uid ELSE friend_id
        paid   == Append(settlements, [from |-> fid, to |-> tid, amount |-> Abs(amount)])
        bal    == balances(splits, paid, dashboard.uid, <<>>) @@ [again |-> FALSE]
    IN  /\ settlements' = paid
        /\ ret' = bal
        /\ dashboard' = [uid |-> dashboard.uid, bal |-> bal.res]
        /\ UNCHANGED splits

\* l.765-766 and l.978-1009: the dialog of the logged-in user saves an
\* exact split with one other person; the dashboard is left as drawn
dialog_save(friend_id, amount) ==
    /\ save(dashboard.uid, "exact", amount, <<friend_id>>, <<amount>>)
    /\ UNCHANGED dashboard

NextApp ==
    \/ /\ \E u \in AppUsers : view_dashboard(u)
       /\ UNCHANGED <<reading, orphaned>>
    \/ /\ \E x \in Buttons : settle_up(x)
       /\ UNCHANGED <<reading, orphaned>>
    \/ /\ dashboard.uid \in AppUsers
       /\ Len(splits) < AppRows
       /\ \E x \in AppUsers \ {dashboard.uid}, a \in AppAmounts : dialog_save(x, a)
       /\ UNCHANGED <<reading, orphaned>>

SpecApp == Init /\ [][NextApp]_vars


\* ------------------------------------ ExpenseApp, five users, two payers
\* The payers enter the expenses of SpecWide through their dialogs; every
\* user opens the dashboard and settles from it.
NextAppWide ==
    \/ /\ \E u \in WidePayers \cup WideDebtors : view_dashboard(u)
       /\ UNCHANGED <<reading, orphaned>>
    \/ /\ \E x \in Buttons : settle_up(x)
       /\ UNCHANGED <<reading, orphaned>>
    \/ /\ dashboard.uid \in WidePayers
       /\ \E d \in WideDebtors, a \in 1..WideAmt : ~Owes(d) /\ dialog_save(d, a)
       /\ UNCHANGED <<reading, orphaned>>

SpecAppWide == Init /\ [][NextAppWide]_vars


\* --------------------------------------------- users who keep settling
\* l.786-787: the row a click on the Settle button of friend_id records
settlement_of(friend_id) ==
    [from   |-> IF dashboard.bal[friend_id] > 0 THEN friend_id ELSE dashboard.uid,
     to     |-> IF dashboard.bal[friend_id] > 0 THEN dashboard.uid ELSE friend_id,
     amount |-> Abs(dashboard.bal[friend_id])]

\* the settle_up steps, told by what they do to the settlements table
Settling == \E x \in Buttons : settlements' = Append(settlements, settlement_of(x))

\* A user who is shown a Settle button again and again ends up clicking one.
SpecSettle == Init /\ [][NextApp]_vars /\ SF_settlements(Settling)

\* ------------- pairwise balances (expense-checkpoint.py, l.272-322)
\* The earlier DatabaseManager keeps a mode without simplification: the
\* balance of user_id with every other user, from the rows user_id is in.
DirectRows == 2

\* l.287-301: one joined row of expenses and expense_splits
direct_split(bal, row, user_id) ==
    IF row.user = row.payer THEN bal
    ELSE IF row.payer = user_id THEN ResAdd(bal, row.user, row.amount)
    ELSE IF row.user = user_id THEN ResAdd(bal, row.payer, 0 - row.amount)
    ELSE bal

\* l.311-319: one row of settlements WHERE from_user_id = ? OR to_user_id = ?
direct_settlement(bal, row, user_id) ==
    IF row.from = user_id THEN ResAdd(bal, row.to, 0 - row.amount)
    ELSE IF row.to = user_id THEN ResAdd(bal, row.from, row.amount)
    ELSE bal

RECURSIVE direct_splits(_, _, _)
direct_splits(bal, rows, user_id) ==
    IF rows = <<>> THEN bal
    ELSE direct_splits(direct_split(bal, Head(rows), user_id), Tail(rows), user_id)

RECURSIVE direct_settlements(_, _, _)
direct_settlements(bal, rows, user_id) ==
    IF rows = <<>> THEN bal
    ELSE direct_settlements(direct_settlement(bal, Head(rows), user_id),
                            Tail(rows), user_id)

direct_balances(sp, st, user_id) ==
    direct_settlements(direct_splits(EmptyRes, sp, user_id), st, user_id)

get_direct_balances(user_id) ==
    /\ ret' = [op |-> "get_direct_balances", user |-> user_id,
               res |-> direct_balances(splits, settlements, user_id)]
    /\ UNCHANGED <<splits, settlements>>

NextDirect ==
    \/ /\ Rows < DirectRows
       /\ \E p \in Users : \E u \in Users \ {p}, a \in Shares :
            add_expense(p, <<[user |-> u, amount |-> a]>>)
       /\ UNCHANGED <<reading, dashboard, orphaned>>
    \/ /\ Rows < DirectRows
       /\ \E f \in Users : \E t \in Users \ {f}, a \in Payments : settle_balance(f, t, a)
       /\ UNCHANGED <<reading, dashboard, orphaned>>
    \/ /\ \E u \in Users : get_direct_balances(u)
       /\ UNCHANGED <<reading, dashboard, orphaned>>

SpecDirect == Init /\ [][NextDirect]_vars


\* ---------------- the walk on IEEE 754 doubles with infinities (l.323-337)
\* float() accepts "inf", and a REAL column stores it.  A double is a finite
\* number of units, PosInf, NegInf or NaN; the loop is taken one iteration
\* at a time, `reading` holding its local variables.  No settlement is
\* recorded here, so the second SELECT (l.314-317) adds nothing to net.
PosInf == 1000000
NegInf == 0 - PosInf
NaN == 7777777

InfRows == 2
MaxIter == 4
InfUsers == {1, 2, 3}
InfAmounts == {1, 3, PosInf}

\* x + y
fadd(x, y) ==
    IF x = NaN \/ y = NaN THEN NaN
    ELSE IF x = PosInf THEN (IF y = NegInf THEN NaN ELSE PosInf)
    ELSE IF x = NegInf THEN (IF y = PosInf THEN NaN ELSE NegInf)
    ELSE IF y = PosInf \/ y = NegInf THEN y
    ELSE x + y

\* -x
fneg(x) == IF x = NaN THEN NaN ELSE 0 - x

\* abs(x)
fabs(x) == IF x = NaN THEN NaN ELSE Abs(x)

\* x < y: every comparison with NaN is false
flt(x, y) == x # NaN /\ y # NaN /\ x < y

\* min(a, b): b when b < a, otherwise a
fmin(a, b) == IF flt(b, a) THEN b ELSE a

\* net[k] += delta
fDictAdd(d, k, delta) ==
    IF \E n \in 1..Len(d) : d[n].k = k
    THEN [n \in 1..Len(d) |-> IF d[n].k = k
                              THEN [k |-> k, v |-> fadd(d[n].v, delta)]
                              ELSE d[n]]
    ELSE Append(d, [k |-> k, v |-> fadd(0, delta)])

\* l.307-311
RECURSIVE ffold_splits(_, _)
ffold_splits(net, rows) ==
    IF rows = <<>> THEN net
    ELSE ffold_splits(
            IF Head(rows).payer = Head(rows).user THEN net
            ELSE fDictAdd(fDictAdd(net, Head(rows).payer, Head(rows).amount),
                          Head(rows).user, fneg(Head(rows).amount)),
            Tail(rows))

\* l.320-321
fdebtors_of(net) == sorted_asc(SelectSeq(net, LAMBDA e : flt(e.v, 0 - Eps)))

fcreditors_of(net) == sorted_desc(SelectSeq(net, LAMBDA e : flt(Eps, e.v)))

\* l.301-323: the call reaches the while loop
enter_walk(user_id) ==
    /\ reading.at = "idle"
    /\ reading' = [at |-> "l325", user |-> user_id, simplified |-> <<>>,
                   debtors   |-> fdebtors_of(ffold_splits(<<>>, splits)),
                   creditors |-> fcreditors_of(ffold_splits(<<>>, splits)),
                   i |-> 1, j |-> 1]
    /\ UNCHANGED <<splits, settlements, ret>>

\* l.325-337: the loop condition holds, one iteration
walk_iteration ==
    /\ reading.at = "l325"
    /\ reading.i <= Len(reading.debtors) /\ reading.j <= Len(reading.creditors)
    /\ Len(reading.simplified) < MaxIter
    /\ LET did  == reading.debtors[reading.i].k
           damt == reading.debtors[reading.i].v
           cid  == reading.creditors[reading.j].k
           camt == reading.creditors[reading.j].v
           amt  == fmin(fabs(damt), camt)
           d2   == fadd(damt, amt)
           c2   == fadd(camt, fneg(amt))
           dmove == flt(fabs(d2), Eps)
           cmove == flt(fabs(c2), Eps)
       IN  reading' =
             [reading EXCEPT
                !.simplified = Append(@, [from |-> did, to |-> cid, amount |-> amt]),
                !.debtors   = IF dmove THEN @ ELSE [@ EXCEPT ![reading.i] = [k |-> did, v |-> d2]],
                !.creditors = IF cmove THEN @ ELSE [@ EXCEPT ![reading.j] = [k |-> cid, v |-> c2]],
                !.i = IF dmove THEN @ + 1 ELSE @,
                !.j = IF cmove THEN @ + 1 ELSE @]
    /\ UNCHANGED <<splits, settlements, ret>>

\* l.325, l.340-344: the loop condition fails, the projector runs
leave_walk ==
    /\ reading.at = "l325"
    /\ ~(reading.i <= Len(reading.debtors) /\ reading.j <= Len(reading.creditors))
    /\ ret' = [op |-> "calculate_balances", user |-> reading.user,
               simplified |-> reading.simplified,
               res |-> project(EmptyRes, reading.simplified, reading.user)]
    /\ reading' = Idle
    /\ UNCHANGED <<splits, settlements>>

NextInf ==
    \/ /\ Len(splits) < InfRows
       /\ reading = Idle
       /\ \E p \in InfUsers : \E u \in InfUsers \ {p}, a \in InfAmounts :
            add_expense(p, <<[user |-> u, amount |-> a]>>)
       /\ UNCHANGED <<reading, dashboard, orphaned>>
    \/ /\ \E u \in InfUsers : enter_walk(u)
       /\ UNCHANGED <<dashboard, orphaned>>
    \/ /\ walk_iteration
       /\ UNCHANGED <<dashboard, orphaned>>
    \/ /\ leave_walk
       /\ UNCHANGED <<dashboard, orphaned>>

SpecInf == Init /\ [][NextInf]_vars


\* -------------------- add_expense that fails half way (l.222-238)
\* A share that is NaN is bound as NULL and the INSERT into expense_splits
\* raises (amount REAL NOT NULL).  The except branch prints and returns None
\* without a rollback: the rows inserted before stay in the transaction
\* that the connection, the only one DatabaseManager has, keeps open, are
\* read by its later SELECTs and are committed by its next commit().
TxnRows == 3
TxnUsers == {1, 2}

\* the items whose INSERT succeeds: those before the first NaN share
RECURSIVE inserted_before_error(_)
inserted_before_error(items) ==
    IF items = <<>> \/ Head(items).amount = NaN THEN <<>>
    ELSE <<Head(items)>> \o inserted_before_error(Tail(items))

add_expense_raises(payer_id, items) ==
    /\ \E n \in 1..Len(items) : items[n].amount = NaN
    /\ splits' = splits \o expense_rows(payer_id, inserted_before_error(items))
    /\ orphaned' = orphaned \cup
                   (Len(splits) + 1)..(Len(splits) + Len(inserted_before_error(items)))
    /\ ret' = [op |-> "add_expense", eid |-> "None"]
    /\ UNCHANGED settlements

NextTxn ==
    \/ /\ Rows < TxnRows
       /\ \E p \in TxnUsers : \E u \in TxnUsers \ {p}, a \in Shares :
            add_expense(p, <<[user |-> u, amount |-> a]>>)
       /\ UNCHANGED <<reading, dashboard, orphaned>>
    \/ /\ Rows < TxnRows
       /\ \E p \in TxnUsers : \E u \in TxnUsers \ {p}, a \in Shares, first \in BOOLEAN :
            add_expense_raises(p, IF first
                                  THEN <<[user |-> p, amount |-> NaN], [user |-> u, amount |-> a]>>
                                  ELSE <<[user |-> u, amount |-> a], [user |-> p, amount |-> NaN]>>)
       /\ UNCHANGED <<reading, dashboard>>
    \/ /\ Rows < TxnRows
       /\ \E f \in TxnUsers : \E t \in TxnUsers \ {f}, a \in Payments : settle_balance(f, t, a)
       /\ UNCHANGED <<reading, dashboard, orphaned>>
    \/ /\ \E u \in TxnUsers : calculate_balances(u)
       /\ UNCHANGED <<reading, dashboard, orphaned>>

SpecTxn == Init /\ [][NextTxn]_vars


\* ================================================================ claims
Called == ret.op = "calculate_balances"

\* the balances every user is left with once each emitted transfer has been
\* recorded as a settlement from its debtor to its creditor
Applied == fold_settlements(ret.net, ret.simplified)

\* the users calculate_balances keeps, and the ones it drops
Kept == SelectSeq(ret.net, LAMBDA e : Abs(e.v) > Eps)

Dropped == SelectSeq(ret.net, LAMBDA e : Abs(e.v) <= Eps)

Cex_C3 ==
    Called =>
        /\ \A n \in 1..Len(Applied) : Abs(Applied[n].v) <= Eps
        /\ \A n \in ret.i..Len(ret.debtors) : Abs(ret.debtors[n].v) <= Eps
        /\ \A n \in ret.j..Len(ret.creditors) : Abs(ret.creditors[n].v) <= Eps

\* C3 (amended): once every emitted transfer is applied as a settlement every
\* balance is within eps * (number of users with a balance - 1) of 0; the
\* users the cursors have passed end strictly within eps of 0, and the walk
\* stops with one of the two lists exhausted.
Thm_C3 ==
    Called =>
        LET applied == Applied
        IN  /\ \A n \in 1..Len(applied) : Abs(applied[n].v) <= Eps * (Len(ret.net) - 1)
            /\ \A n \in 1..(ret.i - 1) : Abs(DictGet(applied, ret.debtors[n].k)) < Eps
            /\ \A n \in 1..(ret.j - 1) : Abs(DictGet(applied, ret.creditors[n].k)) < Eps
            /\ ret.i > Len(ret.debtors) \/ ret.j > Len(ret.creditors)

Wit_C3 ==
    /\ Called
    /\ Len(ret.simplified) >= 2
    /\ \E n \in 1..Len(Applied) : Abs(Applied[n].v) > Eps
    /\ \E n \in 1..(ret.i - 1) : DictGet(Applied, ret.debtors[n].k) # 0

\* C4: every transfer emitted by the simplifier has from # to and an amount
\* strictly greater than eps.
Cex_C4 ==
    Called =>
        \A n \in 1..Len(ret.simplified) :
            /\ ret.simplified[n].from # ret.simplified[n].to
            /\ ret.simplified[n].amount > Eps

\* C5: on the same ledger, if calculate_balances(B) contains A with value v
\* then calculate_balances(A) contains B with value -v.
Thm_C5 ==
    Called =>
        \A x \in DOMAIN ret.res :
            LET other == balances(splits, settlements, x, <<>>).res
            IN  /\ ret.user \in DOMAIN other
                /\ other[ret.user] = 0 - ret.res[x]

Wit_C5 ==
    /\ Called
    /\ Cardinality(DOMAIN ret.res) >= 2
    /\ \E x \in DOMAIN ret.res : ret.res[x] < 0

\* the least number of transfers that brings every balance of net to zero:
\* the users with a nonzero balance, less the largest number of groups they
\* split into with each group summing to zero
SumOver(net, S) == SumSeq([n \in 1..Len(net) |-> IF n \in S THEN net[n].v ELSE 0])

RECURSIVE MaxZeroGroups(_, _)
MaxZeroGroups(net, S) ==
    IF S = {} THEN 0
    ELSE LET x == CHOOSE y \in S : TRUE
             counts == {1 + MaxZeroGroups(net, S \ T) :
                          T \in {G \in SUBSET S : x \in G /\ SumOver(net, G) = 0}}
         IN  CHOOSE m \in counts : \A c \in counts : c <= m

MinTransfers(net) ==
    LET S == {n \in 1..Len(net) : net[n].v # 0}
    IN  Cardinality(S) - MaxZeroGroups(net, S)

\* C6 (as stated): no set of transfers with fewer elements than the
\* simplifier's output brings every balance to zero.
Cex_C6 ==
    Called => Len(ret.simplified) <= MinTransfers(ret.net)

\* C6 (amended): the simplifier emits at most one transfer less than the
\* number of users whose |net| exceeds eps (none when there is no such
\* user); the output need not be of minimum cardinality.
Thm_C6 ==
    Called =>
        /\ Kept = <<>> => ret.simplified = <<>>
        /\ Kept # <<>> => Len(ret.simplified) <= Len(Kept) - 1

Wit_C6 ==
    /\ Called
    /\ Len(ret.simplified) = 4
    /\ MinTransfers(ret.net) = 3

IsPrefix(s, t) == Len(s) <= Len(t) /\ SubSeq(t, 1, Len(s)) = s

\* C8: every split row and settlement row once recorded stays in the ledger
\* with unchanged values, and calculate_balances adds, changes and removes
\* no row.
Thm_C8 ==
    [][/\ IsPrefix(splits, splits')
       /\ IsPrefix(settlements, settlements')
       /\ ret'.op = "calculate_balances" => UNCHANGED <<splits, settlements>>]_vars

Wit_C8 ==
    /\ Called
    /\ Len(settlements) >= 2

NonSelf(rows) == SelectSeq(rows, LAMBDA r : r.payer # r.user)

\* C9: a split whose debtor is the expense's payer changes no user's net
\* balance and leaves calculate_balances(u) unchanged for every user u: the
\* ledger gives the balances it gives without its self-splits.
Thm_C9 ==
    LET others  == NonSelf(splits)
        without == balances(others, settlements, ret.user, <<>>)
    IN  /\ net_balances(splits, settlements) = net_balances(others, settlements)
        /\ Called => ret.net = without.net /\ ret.res = without.res

Wit_C9 ==
    /\ Called
    /\ NonSelf(splits) # splits
    /\ NonSelf(splits) # <<>>
    /\ ret.res # EmptyRes

\* the amounts of the emitted transfers from f to t, summed
Sent(f, t) ==
    SumSeq([n \in 1..Len(ret.simplified) |->
              IF ret.simplified[n].from = f /\ ret.simplified[n].to = t
              THEN ret.simplified[n].amount ELSE 0])

Partners(u) ==
    {ret.simplified[n].from : n \in {m \in 1..Len(ret.simplified) : ret.simplified[m].to = u}}
    \cup {ret.simplified[n].to : n \in {m \in 1..Len(ret.simplified) : ret.simplified[m].from = u}}

\* the ledger holds a single debt: one split of a user other than the payer
SingleDebt == Len(splits) = 1 /\ settlements = <<>> /\ splits[1].payer # splits[1].user

SingleDebtView ==
    LET a == splits[1].payer
        b == splits[1].user
        x == splits[1].amount
    IN  /\ ret.user = a => ret.res = (b :> x)
        /\ ret.user = b => ret.res = (a :> 0 - x)

ProjectorView ==
    /\ DOMAIN ret.res = Partners(ret.user)
    /\ ret.user \notin DOMAIN ret.res
    /\ \A x \in DOMAIN ret.res :
         /\ ret.res[x] = Sent(x, ret.user) - Sent(ret.user, x)
         /\ ret.res[x] > 0 => Sent(x, ret.user) > 0
         /\ ret.res[x] < 0 => Sent(ret.user, x) > 0

\* C10 (as stated): calculate_balances(u) maps each counterparty x to the
\* transfers x -> u less the transfers u -> x, and with a single debt of B
\* to A of amount x, A sees {B: +x} and B sees {A: -x}.
Cex_C10 ==
    Called => ProjectorView /\ (SingleDebt => SingleDebtView)

\* C10 (amended): as stated, the single debt being of an amount above eps;
\* a single debt of at most eps shows in neither user's mapping.
Thm_C10 ==
    Called =>
        /\ ProjectorView
        /\ SingleDebt /\ splits[1].amount > Eps => SingleDebtView
        /\ SingleDebt /\ splits[1].amount <= Eps => ret.res = EmptyRes

Wit_C10 ==
    /\ Called
    /\ SingleDebt
    /\ splits[1].amount > Eps
    /\ ret.user = splits[1].user
    /\ ret.res # EmptyRes

\* the transfers emitted from debtor f to creditor t
Between(f, t) ==
    {n \in 1..Len(ret.simplified) :
        ret.simplified[n].from = f /\ ret.simplified[n].to = t}

\* C11: the transfer list holds at most one transfer per ordered (debtor,
\* creditor) pair, so that each counterparty's entry in the mapping returned
\* to a user comes from exactly one transfer.
Thm_C11 ==
    Called =>
        /\ \A m, n \in 1..Len(ret.simplified) :
             /\ ret.simplified[m].from = ret.simplified[n].from
             /\ ret.simplified[m].to = ret.simplified[n].to
             => m = n
        /\ \A x \in DOMAIN ret.res :
             Cardinality(Between(x, ret.user) \cup Between(ret.user, x)) = 1

Wit_C11 ==
    /\ Called
    /\ Len(ret.simplified) >= 3
    /\ \E m, n \in 1..Len(ret.simplified) :
         m # n /\ ret.simplified[m].from = ret.simplified[n].from
    /\ \E m, n \in 1..Len(ret.simplified) :
         m # n /\ ret.simplified[m].to = ret.simplified[n].to
    /\ Cardinality(DOMAIN ret.res) >= 2

\* the mapping calculate_balances returns to user_id for the ledger made of
\* the first ns split rows and the first nt settlement rows
ResultAt(ns, nt, user_id) ==
    balances(SubSeq(splits, 1, ns), SubSeq(settlements, 1, nt), user_id, <<>>).res

\* C12: a calculate_balances call that runs while another connection appends
\* expenses and settlements returns the mapping of the ledger as it stood at
\* one single instant of the call.
Cex_C12 ==
    Called => \E inst \in ret.seen : ret.res = ResultAt(inst[1], inst[2], ret.user)

\* the settlement recorded last, and the net balances before it
LastSettlement == settlements[Len(settlements)]

BeforeLast == net_balances(splits, SubSeq(settlements, 1, Len(settlements) - 1))

\* the only imbalance of the ledger was that LastSettlement.from owed
\* LastSettlement.to the amount x > eps which the settlement then paid
PaidOnlyDebt ==
    /\ settlements # <<>>
    /\ LastSettlement.amount > Eps
    /\ DictGet(BeforeLast, LastSettlement.to) = LastSettlement.amount
    /\ DictGet(BeforeLast, LastSettlement.from) = 0 - LastSettlement.amount
    /\ \A n \in 1..Len(BeforeLast) :
         BeforeLast[n].k \notin {LastSettlement.from, LastSettlement.to}
         => BeforeLast[n].v = 0

\* C13: when the only imbalance of the ledger is that B owes A an amount
\* x > eps, then after settle_balance(B, A, x) every net balance is within
\* eps of 0, no transfer is emitted, and calculate_balances returns the
\* empty mapping to the user who calls it, A and B included.
Thm_C13 ==
    Called /\ PaidOnlyDebt =>
        /\ \A n \in 1..Len(ret.net) : Abs(ret.net[n].v) <= Eps
        /\ ret.simplified = <<>>
        /\ ret.res = EmptyRes

Wit_C13 ==
    /\ Called
    /\ PaidOnlyDebt
    /\ splits # <<>>
    /\ ret.user = LastSettlement.to
    /\ ret.res = EmptyRes

\* what the rows of the ledger give to user u and take from user u: shares
\* of others in expenses u paid and payments u made, against the shares of
\* u in expenses of others and the payments u received
Lent(u) ==
    SumSeq([n \in 1..Len(splits) |->
              IF splits[n].payer = u /\ splits[n].user # u
              THEN splits[n].amount ELSE 0])

Borrowed(u) ==
    SumSeq([n \in 1..Len(splits) |->
              IF splits[n].user = u /\ splits[n].payer # u
              THEN splits[n].amount ELSE 0])

Paid(u) ==
    SumSeq([n \in 1..Len(settlements) |->
              IF settlements[n].from = u THEN settlements[n].amount ELSE 0])

Received(u) ==
    SumSeq([n \in 1..Len(settlements) |->
              IF settlements[n].to = u THEN settlements[n].amount ELSE 0])

LedgerUsers ==
    {splits[n].payer : n \in 1..Len(splits)}
    \cup {splits[n].user : n \in 1..Len(splits)}
    \cup {settlements[n].from : n \in 1..Len(settlements)}
    \cup {settlements[n].to : n \in 1..Len(settlements)}

\* every user is owed in total as much as the user owes in total
AllEven == \A u \in LedgerUsers : Lent(u) + Paid(u) = Borrowed(u) + Received(u)

\* C14: when every user's total owed to them equals the total they owe (a
\* cycle A owes B x, B owes C x, C owes A x), every net balance is within
\* eps of 0, no transfer is emitted and every user's mapping is empty.
Thm_C14 ==
    Called /\ AllEven =>
        /\ \A n \in 1..Len(ret.net) : Abs(ret.net[n].v) <= Eps
        /\ ret.simplified = <<>>
        /\ \A u \in LedgerUsers :
             ResultAt(Len(splits), Len(settlements), u) = EmptyRes

Wit_C14 ==
    /\ Called
    /\ AllEven
    /\ Len(splits) = 3
    /\ {splits[n].payer : n \in 1..3} = Users
    /\ \A n \in 1..3 : splits[n].amount > Eps /\ splits[n].payer # splits[n].user

\* the users owed more than eps, and the users owing more than eps
Owed == {n \in 1..Len(ret.net) : ret.net[n].v > Eps}

Owing == {n \in 1..Len(ret.net) : ret.net[n].v < 0 - Eps}

\* exactly one creditor, whose credit is the sum of several debtors' debts
OneCreditor ==
    /\ Cardinality(Owed) = 1
    /\ Cardinality(Owing) >= 2
    /\ \A c \in Owed :
         ret.net[c].v = SumSeq([n \in 1..Len(ret.net) |->
                                  IF n \in Owing THEN 0 - ret.net[n].v ELSE 0])

\* C15: with exactly one creditor whose credit equals the sum of several
\* debtors' debts, each above eps, the simplifier emits exactly one transfer
\* per debtor, to that creditor, of the amount of that debtor's debt, and the
\* amounts sum to the creditor's balance.
Thm_C15 ==
    Called /\ OneCreditor =>
        /\ Len(ret.simplified) = Cardinality(Owing)
        /\ \A d \in Owing, c \in Owed :
             /\ Cardinality(Between(ret.net[d].k, ret.net[c].k)) = 1
             /\ \A n \in Between(ret.net[d].k, ret.net[c].k) :
                  ret.simplified[n].amount = 0 - ret.net[d].v
        /\ \A c \in Owed :
             SumSeq([n \in 1..Len(ret.simplified) |-> ret.simplified[n].amount])
                 = ret.net[c].v

Wit_C15 ==
    /\ Called
    /\ OneCreditor
    /\ Cardinality(Owing) = 3
    /\ Len(ret.simplified) = 3

\* C16: for every ledger of well-formed rows a call of calculate_balances,
\* by any user, ends with both cursors within their lists or one past the
\* end and returns a mapping from other users of the ledger to amounts,
\* without raising an error; for the empty ledger the mapping is empty.
Thm_C16 ==
    Called =>
         /\ ret.i \in 1..(Len(ret.debtors) + 1)
         /\ ret.j \in 1..(Len(ret.creditors) + 1)
         /\ DOMAIN ret.res \subseteq LedgerUsers \ {ret.user}
         /\ splits = <<>> /\ settlements = <<>> => ret.res = EmptyRes

Wit_C16 ==
    /\ Called
    /\ splits = <<>>
    /\ settlements = <<>>
    /\ ret.res = EmptyRes

\* the loop states of the walk over the lists built from ret.net: the state
\* before the first iteration and the state after each iteration
RECURSIVE WalkStates(_)
WalkStates(w) ==
    IF w.i <= Len(w.debtors) /\ w.j <= Len(w.creditors)
    THEN <<w>> \o WalkStates(walk_step(w))
    ELSE <<w>>

Steps ==
    WalkStates([simplified |-> <<>>,
                debtors    |-> debtors_of(ret.net),
                creditors  |-> creditors_of(ret.net),
                i |-> 1, j |-> 1])

\* what iteration k leaves of the debtor's and of the creditor's balance
DebtorLeft(k) ==
    Steps[k].debtors[Steps[k].i].v + Steps[k + 1].simplified[k].amount

CreditorLeft(k) ==
    Steps[k].creditors[Steps[k].j].v - Steps[k + 1].simplified[k].amount

\* C17: after each iteration the debtor cursor advances whenever what is left
\* of the debtor's balance is at most eps in absolute value, a remainder of
\* exactly eps included, and likewise the creditor cursor.
Cex_C17 ==
    Called =>
        \A k \in 1..(Len(Steps) - 1) :
            /\ Abs(DebtorLeft(k)) <= Eps => Steps[k + 1].i = Steps[k].i + 1
            /\ Abs(CreditorLeft(k)) <= Eps => Steps[k + 1].j = Steps[k].j + 1

\* the net balance of the debtor and of the creditor of transfer n
FromNet(n) == DictGet(ret.net, ret.simplified[n].from)

ToNet(n) == DictGet(ret.net, ret.simplified[n].to)

\* C18: the first transfer goes from the user with the most negative net
\* balance to the user with the largest positive one, for the smaller of the
\* two magnitudes; the debtor of each later transfer is never earlier in the
\* order from most to least negative than the debtor of the transfer before
\* it, and likewise the creditors in the order from largest to smallest.
Thm_C18 ==
    Called /\ ret.simplified # <<>> =>
        /\ \A n \in 1..Len(ret.net) :
             FromNet(1) <= ret.net[n].v /\ ret.net[n].v <= ToNet(1)
        /\ ret.simplified[1].amount =
             (IF 0 - FromNet(1) < ToNet(1) THEN 0 - FromNet(1) ELSE ToNet(1))
        /\ \A n \in 1..(Len(ret.simplified) - 1) :
             FromNet(n) <= FromNet(n + 1) /\ ToNet(n + 1) <= ToNet(n)
        /\ \A k, l, m \in 1..Len(ret.simplified) :
             k < l /\ l < m =>
                /\ ret.simplified[k].from = ret.simplified[m].from
                   => ret.simplified[l].from = ret.simplified[k].from
                /\ ret.simplified[k].to = ret.simplified[m].to
                   => ret.simplified[l].to = ret.simplified[k].to

Wit_C18 ==
    /\ Called
    /\ Len(ret.simplified) >= 3
    /\ \E m, n \in 1..Len(ret.simplified) : FromNet(m) < FromNet(n)
    /\ \E m, n \in 1..Len(ret.simplified) : ToNet(m) < ToNet(n)

\* the balances calculate_balances is left with once l.320-321 have dropped
\* the users within eps do not cancel
Unbalanced == Abs(SumSeq(Values(Kept))) > Eps

\* C19: when the net balances left after aggregation sum to more than eps in
\* absolute value, calculate_balances reports a data-integrity warning to its
\* caller, and still runs the simplifier on what was computed.
Cex_C19 ==
    Called /\ Unbalanced =>
        /\ ret.warned
        /\ ret.i > Len(ret.debtors) \/ ret.j > Len(ret.creditors)

\* C20: every split row recorded by AddExpenseDialog.save through add_expense
\* has a share >= 0, whatever the split type: an expense with a negative
\* share or a negative total is rejected before a row reaches the ledger.
Cex_C20 ==
    \A n \in 1..Len(splits) : splits[n].amount >= 0

\* the shares save builds for the dialog's inputs, summed
SharesSum(stype, total, selected_uids, entries) ==
    SumSeq([n \in 1..Len(selected_uids) |->
              save_splits(stype, total, selected_uids, entries)[n].amount])

\* the step is save with these inputs, and it has written split rows
Recorded(uid, stype, total, selected_uids, entries) ==
    /\ save(uid, stype, total, selected_uids, entries)
    /\ splits' # splits

\* C21: AddExpenseDialog.save records an expense only when its shares sum to
\* the expense total within eps; an expense whose shares differ from the
\* total by more than eps is rejected and no row is written.
Cex_C21 ==
    [][\A uid \in DialogUsers, total \in Totals, sel \in Selections :
        /\ Recorded(uid, "equal", total, sel, <<>>)
           => Abs(SharesSum("equal", total, sel, <<>>) - total) <= Eps
        /\ \A entries \in [1..Len(sel) -> ExactEntries] :
             Recorded(uid, "exact", total, sel, entries)
             => Abs(SharesSum("exact", total, sel, entries) - total) <= Eps
        /\ \A entries \in [1..Len(sel) -> PercentEntries] :
             Recorded(uid, "percent", total, sel, entries)
             => Abs(SharesSum("percent", total, sel, entries) - total) <= Eps]_vars

\* C22: every settlement row recorded through ExpenseApp.settle_up has a
\* positive amount and a payer different from its payee, in every
\* reachable state of the application.
Thm_C22 ==
    \A n \in 1..Len(settlements) :
        /\ settlements[n].amount > 0
        /\ settlements[n].from # settlements[n].to

\* two settle-ups have been recorded, paid by different users
Wit_C22 ==
    /\ Len(settlements) >= 2
    /\ settlements[1].from # settlements[2].from

\* what calculate_balances gives the logged-in user on the present ledger
Projected == balances(splits, settlements, dashboard.uid, <<>>).res

\* the settlement row a step has just recorded
Recording == settlements'[Len(settlements')]

\* C27: every settlement recorded by settle_up has an amount equal to the
\* projected balance between the two users in the ledger state at the
\* moment it is recorded, so a settle-up never reverses who owes whom; also
\* when an expense was saved through AddExpenseDialog after the dashboard
\* rendered its Settle buttons.
Cex_C27 ==
    [][Len(settlements') > Len(settlements)
        => LET friend == IF Recording.from = dashboard.uid THEN Recording.to
                         ELSE Recording.from
           IN  /\ friend \in DOMAIN Projected
               /\ Projected[friend] = IF Recording.to = dashboard.uid
                                      THEN Recording.amount
                                      ELSE 0 - Recording.amount]_vars

\* the dashboard shows what calculate_balances gives on the present ledger
Fresh == dashboard.bal = Projected

\* the counterparty of the settle-up a step has just recorded
Counterparty ==
    IF Recording.from = dashboard.uid THEN Recording.to ELSE Recording.from

\* C26: after user u settles up with counterparty x for the amount shown in
\* a freshly computed view, the next calculate_balances(u) has no entry for
\* x of 0.01 or more in magnitude: x shows as settled up with u.
Cex_C26 ==
    [][Len(settlements') > Len(settlements) /\ Fresh
        => \/ Counterparty \notin DOMAIN dashboard'.bal
           \/ settled(dashboard'.bal[Counterparty])]_vars

\* calculate_balances returns an empty mapping for every user
AllSettled ==
    \A u \in AppUsers : balances(splits, settlements, u, <<>>).res = EmptyRes

\* the sum of |net balance| over all users
Outstanding(sp, st) ==
    SumSeq([n \in 1..Len(net_balances(sp, st)) |-> Abs(net_balances(sp, st)[n].v)])

\* somebody with a balance to settle is at the dashboard, unless nobody has
Looking == Buttons # {} \/ AllSettled

Pairwise(sp, st, u, x) ==
    IF x \in DOMAIN direct_balances(sp, st, u) THEN direct_balances(sp, st, u)[x] ELSE 0

\* C23: in the pairwise mode get_direct_balances, a settlement of amount a
\* paid by u to x, of at most what u owes x, moves u's balance with x toward
\* zero by a and x's balance with u toward zero by a, so paying exactly the
\* displayed debt brings the pair's balance to 0.
Cex_C23 ==
    [][Len(settlements') > Len(settlements)
        => LET u == Recording.from
               x == Recording.to
               a == Recording.amount
           IN  Pairwise(splits, settlements, u, x) <= 0 - a
               => /\ Pairwise(splits', settlements', u, x)
                       = Pairwise(splits, settlements, u, x) + a
                  /\ Pairwise(splits', settlements', x, u)
                       = Pairwise(splits, settlements, x, u) - a]_vars

\* C24: every iteration of the two-cursor walk advances at least one
\* cursor, so for every input the walk terminates and emits at most
\* |debtors| + |creditors| - 1 transfers.
Cex_C24 ==
    [][reading.at = "l325" /\ reading'.at = "l325" /\ reading' # reading
        => /\ reading'.i > reading.i \/ reading'.j > reading.j
           /\ Len(reading'.simplified)
                <= Len(reading.debtors) + Len(reading.creditors) - 1]_vars

\* what user k sends, and what user k receives, in the emitted transfers
SentBy(k) ==
    SumSeq([n \in 1..Len(ret.simplified) |->
              IF ret.simplified[n].from = k THEN ret.simplified[n].amount ELSE 0])

GotBy(k) ==
    SumSeq([n \in 1..Len(ret.simplified) |->
              IF ret.simplified[n].to = k THEN ret.simplified[n].amount ELSE 0])

\* the sum of the values of a mapping
RECURSIVE SumRes(_, _)
SumRes(f, keys) ==
    IF keys = {} THEN 0
    ELSE LET k == CHOOSE x \in keys : TRUE
         IN  f[k] + SumRes(f, keys \ {k})

\* C25: in the simplifier's output no user is both the sender of one
\* transfer and the receiver of another; what a debtor sends sums to at
\* most |its net balance| and what a creditor receives to at most its net
\* balance, so the sum of calculate_balances(u) is never of the sign
\* opposite to u's net balance and never exceeds it in magnitude.
Thm_C25 ==
    Called =>
        LET total == SumRes(ret.res, DOMAIN ret.res)
            own   == DictGet(ret.net, ret.user)
        IN  /\ \A n \in 1..Len(ret.net) :
                 LET k == ret.net[n].k
                     v == ret.net[n].v
                     s == SentBy(k)
                     g == GotBy(k)
                 IN  /\ s = 0 \/ g = 0
                     /\ s > 0 => v < 0 /\ s <= 0 - v
                     /\ g > 0 => v > 0 /\ g <= v
            /\ total = GotBy(ret.user) - SentBy(ret.user)
            /\ total * own >= 0
            /\ Abs(total) <= Abs(own)

\* a debtor sends all it owes to two creditors, one of whom is left short
Wit_C25 ==
    /\ Called
    /\ \E n \in 1..Len(ret.net) :
         /\ ret.net[n].v < 0
         /\ SentBy(ret.net[n].k) = 0 - ret.net[n].v
         /\ Cardinality({m \in 1..Len(ret.simplified) :
                           ret.simplified[m].from = ret.net[n].k}) = 2
    /\ \E n \in 1..Len(ret.net) :
         ret.net[n].v > Eps /\ GotBy(ret.net[n].k) < ret.net[n].v
    /\ ret.res # EmptyRes

\* C25 as stated: the sum of calculate_balances(u) has the sign of u's net
\* balance.
Cex_C25 ==
    Called =>
        LET total == SumRes(ret.res, DOMAIN ret.res)
            own   == DictGet(ret.net, ret.user)
        IN  /\ total > 0 <=> own > 0
            /\ total < 0 <=> own < 0

\* calculate_balances on the ledger in which every emitted transfer has been
\* recorded by settle_balance(debtor, creditor, amount)
Recomputed == balances(splits, settlements \o ret.simplified, ret.user, <<>>)

\* C29: for any ledger, once every transfer emitted by the simplifier has
\* been recorded as a settlement, recomputing on the new ledger emits no
\* transfer: calculate_balances returns an empty mapping for every user.
Thm_C29 ==
    Called =>
        LET again == Recomputed
        IN  /\ again.simplified = <<>>
            /\ again.res = EmptyRes
            /\ \A u \in WidePayers \cup WideDebtors :
                 project(EmptyRes, again.simplified, u) = EmptyRes

\* three transfers were emitted, and recording them leaves a balance that
\* is not zero
Wit_C29 ==
    /\ Called
    /\ Len(ret.simplified) >= 3
    /\ \E n \in 1..Len(Recomputed.net) : Recomputed.net[n].v # 0

\* the rows of a table, less those at the positions in S
RECURSIVE Without(_, _)
Without(rows, S) ==
    IF rows = <<>> THEN <<>>
    ELSE IF Len(rows) \in S THEN Without(SubSeq(rows, 1, Len(rows) - 1), S)
         ELSE Append(Without(SubSeq(rows, 1, Len(rows) - 1), S), rows[Len(rows)])

\* C30: if add_expense fails and returns None, neither the expense row nor
\* any of its split rows ever becomes part of the ledger read by later
\* calculate_balances calls, including after a later successful add_expense
\* or settle_balance commits on the same connection.
Cex_C30 ==
    Called => ret.net = net_balances(Without(splits, orphaned), settlements)

====
